---- MODULE Spec2Model ----
(***************************************************************************)
(* Block-transfer core of backy2: the file IO engine (backy2/io/file.py)   *)
(* and the S3 data backend (backy2/data_backends/s3.py), as one state      *)
(* machine.  Threads are interleaved at the granularity of their blocking  *)
(* calls (queue get/put, seek, read, write, get_object, put_object).       *)
(***************************************************************************)
EXTENDS Integers, Sequences, FiniteSets, TLC

(* ------------------------------ bounds --------------------------------- *)
\* largest value of simultaneous_reads / simultaneous_writes in a configuration
MaxWorkers == 2
\* block_size handed to IO.__init__ (bytes per block)
BlockSize == 2
\* block ids range over 0..MaxBlockId
MaxBlockId == 1
\* number of distinct payloads callers write or save
NumPayloads == 2
\* longest file present before the engine is opened, and largest size for open_w
MaxFileLen == 3
\* write() calls per file engine
MaxWrites == 2
\* read() calls per file engine
MaxReads == 2
\* save() calls per backend
MaxSaves == 2
\* read() calls per backend
MaxS3Reads == 2
\* save() and read() calls per backend, together
MaxS3Calls == 3
\* jobs a caller submits under bulk load: more than the largest queue capacity
\* plus the largest pool
BulkJobs == 24
\* read() calls per backend that may get poisoned
MaxFatalReads == 1
\* longest uid list handed to rm_many
MaxRmUids == 2
\* transient get_object failures (socket timeout, OSError) per read_raw call
MaxRetries == 1

(* ------------------------- program constants --------------------------- *)
IO_WRITE_QUEUE_LENGTH == 20
IO_READ_QUEUE_LENGTH == 20
S3_WRITE_QUEUE_LENGTH == 20
S3_READ_QUEUE_LENGTH == 20

(* ------------------------------- state ---------------------------------- *)
VARIABLES
    engine,        \* which object was constructed: "io" or "s3"
    cfg,           \* the configuration: [reads |-> n, writes |-> n]
    workload,      \* what the caller will ask for at most: calls of each kind, payloads, blocks, sync flags
    \* ---- file engine (class IO) ----
    mode,          \* IO.mode: "none", "r", "w"
    fileExists,    \* os.path.exists(io_name)
    fileData,      \* the file's bytes, a sequence (its length is the file size)
    wfOpen,        \* IO._write_file: "none", "open", "closed"
    wfPos,         \* position of the shared handle IO._write_file
    ioWriteQueue,  \* IO._write_queue
    ioWPc,         \* writer thread -> "off", "get", "seek", "write", "done"
    ioWEntry,      \* writer thread -> the entry it dequeued
    ioInqueue,     \* IO._inqueue
    ioOutqueue,    \* IO._outqueue
    ioRPc,         \* reader thread -> "off", "open", "get", "read", "put", "sentinel", "done", "dead"
    ioRBlock,      \* reader thread -> the block it dequeued
    ioRData,       \* reader thread -> the data it read
    ioPc,          \* the caller: "init", "open", "close_put", "close_join", "closed", "failed"
    ioK,           \* sentinels close() has put so far
    ioWant,        \* the block id a pending read(block, sync=True) waits for
    ioErr,         \* the error the caller's last call raised, "none" if it returned
    ioSubmitted,   \* history: the jobs accepted by write() / read(), in call order
    ioReceived,    \* history: what get() returned, in order
    \* ---- S3 data backend (class DataBackend) ----
    store,         \* the bucket: uid -> object body, None when there is no such key
    fatal_error,   \* DataBackend.fatal_error
    s3WriteQueue,  \* DataBackend._write_queue
    s3Unfinished,  \* unfinished_tasks of _write_queue: puts not yet task_done()
    s3ReadQueue,   \* DataBackend._read_queue
    s3ReadDataQueue, \* DataBackend._read_data_queue
    s3WPc,         \* writer thread -> "off", "get", "put", "done", "dead"
    s3WEntry,      \* writer thread -> the (uid, data) it dequeued
    s3RPc,         \* reader thread -> "off", "get", "read_raw", "put", "done", "dead"
    s3RBlock,      \* reader thread -> the block it dequeued
    s3RData,       \* reader thread -> the data read_raw returned
    s3RTries,      \* reader thread -> failed get_object attempts of its read_raw call
    s3RExc,        \* reader thread -> the exception that ended it, "none" otherwise
    s3Pc,          \* the caller: "run", "save_join", "read_get", "close_w", "close_r", "closed"
    s3K,           \* sentinels close() has put in its current loop
    s3NextUid,     \* uids handed out by _uid() so far
    s3Want,        \* the block a pending read(block, sync=True) waits for
    s3Err,         \* the error the caller's last call raised, "none" if it returned
    s3Reads,       \* read() calls made so far
    s3Saved,       \* history: uid -> the data handed to the save() that made it
    s3Returned,    \* history: uid -> "no", or how the save() that returned it was called: "async", "sync"
    s3Got          \* history: the (block, data) pairs read_get() handed to the caller

ioVars == <<mode, fileExists, fileData, wfOpen, wfPos, ioWriteQueue, ioWPc, ioWEntry,
            ioInqueue, ioOutqueue, ioRPc, ioRBlock, ioRData, ioPc, ioK, ioWant, ioErr,
            ioSubmitted, ioReceived>>

s3Vars == <<store, fatal_error, s3WriteQueue, s3Unfinished, s3ReadQueue, s3ReadDataQueue,
            s3WPc, s3WEntry, s3RPc, s3RBlock, s3RData, s3RTries, s3RExc, s3Pc, s3K,
            s3NextUid, s3Want, s3Err, s3Reads, s3Saved, s3Returned, s3Got>>

vars == <<engine, cfg, workload, ioVars, s3Vars>>

(* ------------------------------ helpers --------------------------------- *)
Workers == 1..MaxWorkers
BlockIds == 0..workload.blocks
\* the None sentinel of the queues; every other queue item is a non-empty tuple
None == <<>>
\* a payload of block_size bytes
Payload(v) == [i \in 1..BlockSize |-> v]
DataSet == {Payload(v) : v \in 1..workload.payloads}
\* the mixed workload of a caller: a few calls of every kind, any payload and block
MixedLoad ==
    [writes |-> MaxWrites, reads |-> MaxReads, saves |-> MaxSaves,
     s3reads |-> MaxS3Reads, s3calls |-> MaxS3Calls, payloads |-> NumPayloads,
     blocks |-> MaxBlockId, sync |-> BOOLEAN, fresh |-> TRUE]
\* the bytes of a file that exists before the engine touches it
InitByte(off) == 10 + off
InitFile(len) == [i \in 1..len |-> InitByte(i - 1)]

\* object keys: 0 names an object the bucket holds from an earlier run, 1.. are
\* the uids _uid() hands out, in order
Uids == 0..workload.saves
OldUid == 0

Max(a, b) == IF a >= b THEN a ELSE b
Min(a, b) == IF a <= b THEN a ELSE b

\* IO.__init__: both pool sizes are read from the key 'simultaneous_reads'
IO_simultaneous_reads == cfg.reads
IO_simultaneous_writes == cfg.reads

IOWriters == 1..IO_simultaneous_writes
IOReaders == 1..IO_simultaneous_reads

\* file.write(data) at position pos: bytes before pos are kept (a hole reads as
\* zero), the data replaces what was there, the tail after it is kept
WriteAt(f, pos, d) ==
    [i \in 1..Max(Len(f), pos + Len(d)) |->
        IF i > pos /\ i <= pos + Len(d) THEN d[i - pos]
        ELSE IF i <= Len(f) THEN f[i]
        ELSE 0]

\* file.read(n) at position pos: the bytes from pos, at most n, none past the end
ReadAt(f, pos, n) ==
    IF pos >= Len(f) THEN <<>>
    ELSE [i \in 1..Min(n, Len(f) - pos) |-> f[pos + i]]

\* IO.size(): seek to the end and tell
IO_size == Len(fileData)

Terminated(pc) == pc \in {"off", "done", "dead"}

(* ------------------------------- Init ----------------------------------- *)
InitIOVars ==
    /\ mode = "none"
    /\ wfOpen = "none"
    /\ wfPos = 0
    /\ ioWriteQueue = <<>>
    /\ ioWPc = [w \in Workers |-> "off"]
    /\ ioWEntry = [w \in Workers |-> None]
    /\ ioInqueue = <<>>
    /\ ioOutqueue = <<>>
    /\ ioRPc = [r \in Workers |-> "off"]
    /\ ioRBlock = [r \in Workers |-> 0]
    /\ ioRData = [r \in Workers |-> <<>>]
    /\ ioPc = "init"
    /\ ioK = 0
    /\ ioWant = 0
    /\ ioErr = "none"
    /\ ioSubmitted = <<>>
    /\ ioReceived = <<>>

\* the state of a backend that was not constructed
InitS3Vars ==
    /\ store = [u \in Uids |-> None]
    /\ fatal_error = None
    /\ s3WriteQueue = <<>>
    /\ s3Unfinished = 0
    /\ s3ReadQueue = <<>>
    /\ s3ReadDataQueue = <<>>
    /\ s3WPc = [w \in Workers |-> "off"]
    /\ s3WEntry = [w \in Workers |-> None]
    /\ s3RPc = [r \in Workers |-> "off"]
    /\ s3RBlock = [r \in Workers |-> None]
    /\ s3RData = [r \in Workers |-> None]
    /\ s3RTries = [r \in Workers |-> 0]
    /\ s3RExc = [r \in Workers |-> "none"]
    /\ s3Pc = "off"
    /\ s3K = 0
    /\ s3NextUid = 0
    /\ s3Want = None
    /\ s3Err = "none"
    /\ s3Reads = 0
    /\ s3Saved = [u \in Uids |-> None]
    /\ s3Returned = [u \in Uids |-> "no"]
    /\ s3Got = <<>>

\* IO.__init__(config, block_size, hash_function); the file is whatever the
\* file system holds at io_name
InitIOWith(load) ==
    /\ engine = "io"
    /\ workload = load
    /\ cfg \in [reads : Workers, writes : Workers]
    /\ fileExists \in BOOLEAN
    /\ \E len \in 0..MaxFileLen :
          fileData = IF fileExists THEN InitFile(len) ELSE <<>>
    /\ InitIOVars
    /\ InitS3Vars

InitIO == InitIOWith(MixedLoad)

(* ----------------------- file engine, write mode ------------------------ *)
\* faulty variant: an existing file that is smaller than size is accepted
IO_open_w_any_size(size, force) ==
    /\ engine = "io"
    /\ ioPc = "init"
    /\ mode' = "w"
    /\ IF fileExists /\ ~force
       THEN /\ ioPc' = "failed"
            /\ UNCHANGED <<fileExists, fileData, wfOpen, wfPos, ioWriteQueue, ioWPc>>
       ELSE /\ fileExists' = TRUE
            /\ fileData' = IF fileExists THEN fileData
                           ELSE WriteAt(<<>>, size - 1, <<0>>)
            /\ wfOpen' = "open"
            /\ wfPos' = 0
            /\ ioWriteQueue' = <<>>
            /\ ioWPc' = [w \in Workers |-> IF w \in IOWriters THEN "get" ELSE "off"]
            /\ ioPc' = "open"
    /\ UNCHANGED <<s3Vars, engine, cfg, workload, ioWEntry, ioInqueue, ioOutqueue, ioRPc, ioRBlock,
                   ioRData, ioK, ioSubmitted, ioReceived, ioErr, ioWant>>

\* IO.open_w(io_name, size, force)
IO_open_w(size, force) ==
    /\ engine = "io"
    /\ ioPc = "init"
    /\ mode' = "w"
    /\ IF fileExists /\ (~force \/ IO_size < size)
       THEN \* exit(...): SystemExit, nothing is opened or started
            /\ ioPc' = "failed"
            /\ UNCHANGED <<fileExists, fileData, wfOpen, wfPos, ioWriteQueue, ioWPc>>
       ELSE /\ fileExists' = TRUE
            /\ fileData' = IF fileExists THEN fileData
                           ELSE WriteAt(<<>>, size - 1, <<0>>)
            /\ wfOpen' = "open"
            /\ wfPos' = 0
            /\ ioWriteQueue' = <<>>
            /\ ioWPc' = [w \in Workers |-> IF w \in IOWriters THEN "get" ELSE "off"]
            /\ ioPc' = "open"
    /\ UNCHANGED <<s3Vars, engine, cfg, workload, ioWEntry, ioInqueue, ioOutqueue, ioRPc, ioRBlock,
                   ioRData, ioK, ioSubmitted, ioReceived, ioErr, ioWant>>

OpenW ==
    \E size \in 1..MaxFileLen, force \in BOOLEAN : IO_open_w(size, force)

\* capacity of IO._write_queue
IOWriteQueueCap == IO_simultaneous_writes + IO_WRITE_QUEUE_LENGTH

\* IO.write(block, data): raises when self._write_file is falsy (None before
\* open_w; a file object, open or closed, is truthy), else puts the job
IO_write(block, data) ==
    /\ engine = "io"
    /\ ioPc \in {"init", "open", "closed"}
    /\ Len(ioSubmitted) < workload.writes
    /\ IF wfOpen = "none"
       THEN /\ ioErr' = "File not open."
            /\ UNCHANGED <<ioWriteQueue, ioSubmitted>>
       ELSE /\ Len(ioWriteQueue) < IOWriteQueueCap
            /\ ioWriteQueue' = Append(ioWriteQueue, <<block, data>>)
            /\ ioSubmitted' = Append(ioSubmitted, <<block, data>>)
            /\ ioErr' = "none"
    /\ UNCHANGED <<s3Vars, engine, cfg, workload, mode, fileExists, fileData, wfOpen, wfPos, ioWPc,
                   ioWEntry, ioInqueue, ioOutqueue, ioRPc, ioRBlock, ioRData, ioPc,
                   ioK, ioReceived, ioWant>>

Write ==
    \E block \in BlockIds, data \in DataSet : IO_write(block, data)

\* IO._writer: entry = self._write_queue.get(); None ends the thread
IO_writer_get(w) ==
    /\ ioWPc[w] = "get"
    /\ ioWriteQueue # <<>>
    /\ ioWriteQueue' = Tail(ioWriteQueue)
    /\ ioWEntry' = [ioWEntry EXCEPT ![w] = Head(ioWriteQueue)]
    /\ ioWPc' = [ioWPc EXCEPT ![w] = IF Head(ioWriteQueue) = None THEN "done" ELSE "seek"]
    /\ UNCHANGED <<s3Vars, engine, cfg, workload, mode, fileExists, fileData, wfOpen, wfPos, ioInqueue,
                   ioOutqueue, ioRPc, ioRBlock, ioRData, ioPc, ioK, ioSubmitted,
                   ioReceived, ioErr, ioWant>>

\* IO._writer: self._write_file.seek(block.id * self.block_size)
IO_writer_seek(w) ==
    /\ ioWPc[w] = "seek"
    /\ wfPos' = ioWEntry[w][1] * BlockSize
    /\ ioWPc' = [ioWPc EXCEPT ![w] = "write"]
    /\ UNCHANGED <<s3Vars, engine, cfg, workload, mode, fileExists, fileData, wfOpen, ioWriteQueue,
                   ioWEntry, ioInqueue, ioOutqueue, ioRPc, ioRBlock, ioRData, ioPc,
                   ioK, ioSubmitted, ioReceived, ioErr, ioWant>>

\* IO._writer: written = self._write_file.write(data), at the handle's position,
\* which it advances; then task_done()
IO_writer_write(w) ==
    /\ ioWPc[w] = "write"
    /\ fileData' = WriteAt(fileData, wfPos, ioWEntry[w][2])
    /\ wfPos' = wfPos + Len(ioWEntry[w][2])
    /\ ioWPc' = [ioWPc EXCEPT ![w] = "get"]
    /\ UNCHANGED <<s3Vars, engine, cfg, workload, mode, fileExists, wfOpen, ioWriteQueue, ioWEntry,
                   ioInqueue, ioOutqueue, ioRPc, ioRBlock, ioRData, ioPc, ioK,
                   ioSubmitted, ioReceived, ioErr, ioWant>>

WriterGet == \E w \in Workers : IO_writer_get(w)
WriterSeek == \E w \in Workers : IO_writer_seek(w)
WriterWrite == \E w \in Workers : IO_writer_write(w)

\* IO.close(), first loop: one None per thread of the open mode's pool
IO_close_put ==
    /\ engine = "io"
    /\ ioPc \in {"open", "close_put"}
    /\ mode \in {"r", "w"}
    /\ IF mode = "w"
       THEN /\ ioK < IO_simultaneous_writes
            /\ Len(ioWriteQueue) < IOWriteQueueCap
            /\ ioWriteQueue' = Append(ioWriteQueue, None)
            /\ UNCHANGED ioInqueue
       ELSE /\ ioK < IO_simultaneous_reads
            /\ ioInqueue' = Append(ioInqueue, None)
            /\ UNCHANGED ioWriteQueue
    /\ ioK' = ioK + 1
    /\ ioPc' = "close_put"
    /\ UNCHANGED <<s3Vars, engine, cfg, workload, mode, fileExists, fileData, wfOpen, wfPos, ioWPc,
                   ioWEntry, ioOutqueue, ioRPc, ioRBlock, ioRData, ioSubmitted,
                   ioReceived, ioErr, ioWant>>

\* IO.close(), second loop: every thread of the pool has been joined
IO_close_joined ==
    IF mode = "w" THEN \A w \in IOWriters : Terminated(ioWPc[w])
    ELSE \A r \in IOReaders : Terminated(ioRPc[r])

\* IO.close(): the joins return, the write file is closed, close() returns
IO_close_join ==
    /\ engine = "io"
    /\ ioPc = "close_put"
    /\ ioK = (IF mode = "w" THEN IO_simultaneous_writes ELSE IO_simultaneous_reads)
    /\ IO_close_joined
    /\ wfOpen' = IF mode = "w" THEN "closed" ELSE wfOpen
    /\ ioPc' = "closed"
    /\ UNCHANGED <<s3Vars, engine, cfg, workload, mode, fileExists, fileData, wfPos, ioWriteQueue, ioWPc,
                   ioWEntry, ioInqueue, ioOutqueue, ioRPc, ioRBlock, ioRData, ioK,
                   ioSubmitted, ioReceived, ioErr, ioWant>>

(* ------------------------ file engine, read mode ------------------------ *)
\* self.hash_function(data).hexdigest(): the configured hash, here a polynomial
\* hash of the bytes
RECURSIVE HashFrom(_, _)
HashFrom(d, i) ==
    IF i > Len(d) THEN 7 ELSE (31 * HashFrom(d, i + 1) + d[i]) % 251
hash_function(d) == HashFrom(d, 1)

\* capacity of IO._outqueue
IOOutqueueCap == IO_simultaneous_reads + IO_READ_QUEUE_LENGTH

\* IO.open_r(io_name): the queues are created and the reader threads started
IO_open_r ==
    /\ engine = "io"
    /\ ioPc = "init"
    /\ mode' = "r"
    /\ ioInqueue' = <<>>
    /\ ioOutqueue' = <<>>
    /\ ioRPc' = [r \in Workers |-> IF r \in IOReaders THEN "open" ELSE "off"]
    /\ ioPc' = "open"
    /\ UNCHANGED <<s3Vars, engine, cfg, workload, fileExists, fileData, wfOpen, wfPos, ioWriteQueue,
                   ioWPc, ioWEntry, ioRBlock, ioRData, ioK, ioSubmitted, ioReceived,
                   ioErr, ioWant>>

\* IO._reader: with open(self.io_name, 'rb') as source_file; a missing file
\* raises in the thread, which ends it
IO_reader_open(r) ==
    /\ ioRPc[r] = "open"
    /\ ioRPc' = [ioRPc EXCEPT ![r] = IF fileExists THEN "get" ELSE "dead"]
    /\ UNCHANGED <<s3Vars, engine, cfg, workload, mode, fileExists, fileData, wfOpen, wfPos,
                   ioWriteQueue, ioWPc, ioWEntry, ioInqueue, ioOutqueue, ioRBlock,
                   ioRData, ioPc, ioK, ioSubmitted, ioReceived, ioErr, ioWant>>

\* IO._reader: block = self._inqueue.get()
IO_reader_get(r) ==
    /\ ioRPc[r] = "get"
    /\ ioInqueue # <<>>
    /\ ioInqueue' = Tail(ioInqueue)
    /\ IF Head(ioInqueue) = None
       THEN /\ ioRPc' = [ioRPc EXCEPT ![r] = "sentinel"]
            /\ UNCHANGED ioRBlock
       ELSE /\ ioRPc' = [ioRPc EXCEPT ![r] = "read"]
            /\ ioRBlock' = [ioRBlock EXCEPT ![r] = Head(ioInqueue)[1]]
    /\ UNCHANGED <<s3Vars, engine, cfg, workload, mode, fileExists, fileData, wfOpen, wfPos,
                   ioWriteQueue, ioWPc, ioWEntry, ioOutqueue, ioRData, ioPc, ioK,
                   ioSubmitted, ioReceived, ioErr, ioWant>>

\* faulty variant: the reader seeks to block.id instead of block.id * block_size
IO_reader_read_unscaled(r) ==
    /\ ioRPc[r] = "read"
    /\ LET data == ReadAt(fileData, ioRBlock[r], BlockSize)
       IN  /\ ioRData' = [ioRData EXCEPT ![r] = data]
           /\ ioRPc' = [ioRPc EXCEPT ![r] = IF data = <<>> THEN "dead" ELSE "put"]
    /\ UNCHANGED <<s3Vars, engine, cfg, workload, mode, fileExists, fileData, wfOpen,
                   wfPos, ioWriteQueue, ioWPc, ioWEntry, ioInqueue, ioOutqueue,
                   ioRBlock, ioPc, ioK, ioSubmitted, ioReceived, ioErr, ioWant>>

\* IO._reader: source_file.seek(offset); data = source_file.read(block_size) on
\* the thread's own handle; if not data: raise RuntimeError (ends the thread)
IO_reader_read(r) ==
    /\ ioRPc[r] = "read"
    /\ LET data == ReadAt(fileData, ioRBlock[r] * BlockSize, BlockSize)
       IN  /\ ioRData' = [ioRData EXCEPT ![r] = data]
           /\ ioRPc' = [ioRPc EXCEPT ![r] = IF data = <<>> THEN "dead" ELSE "put"]
    /\ UNCHANGED <<s3Vars, engine, cfg, workload, mode, fileExists, fileData, wfOpen, wfPos,
                   ioWriteQueue, ioWPc, ioWEntry, ioInqueue, ioOutqueue, ioRBlock,
                   ioPc, ioK, ioSubmitted, ioReceived, ioErr, ioWant>>

\* IO._reader: self._outqueue.put((block, data, data_checksum)); task_done()
IO_reader_put(r) ==
    /\ ioRPc[r] = "put"
    /\ Len(ioOutqueue) < IOOutqueueCap
    /\ ioOutqueue' = Append(ioOutqueue,
                            <<ioRBlock[r], ioRData[r], hash_function(ioRData[r])>>)
    /\ ioRPc' = [ioRPc EXCEPT ![r] = "get"]
    /\ UNCHANGED <<s3Vars, engine, cfg, workload, mode, fileExists, fileData, wfOpen, wfPos,
                   ioWriteQueue, ioWPc, ioWEntry, ioInqueue, ioRBlock, ioRData, ioPc,
                   ioK, ioSubmitted, ioReceived, ioErr, ioWant>>

\* IO._reader on the None sentinel: self._outqueue.put(None); break
IO_reader_sentinel(r) ==
    /\ ioRPc[r] = "sentinel"
    /\ Len(ioOutqueue) < IOOutqueueCap
    /\ ioOutqueue' = Append(ioOutqueue, None)
    /\ ioRPc' = [ioRPc EXCEPT ![r] = "done"]
    /\ UNCHANGED <<s3Vars, engine, cfg, workload, mode, fileExists, fileData, wfOpen, wfPos,
                   ioWriteQueue, ioWPc, ioWEntry, ioInqueue, ioRBlock, ioRData, ioPc,
                   ioK, ioSubmitted, ioReceived, ioErr, ioWant>>

IO_reader(r) ==
    \/ IO_reader_open(r)
    \/ IO_reader_get(r)
    \/ IO_reader_read(r)
    \/ IO_reader_put(r)
    \/ IO_reader_sentinel(r)

ReaderOpen == \E r \in Workers : IO_reader_open(r)
ReaderGet == \E r \in Workers : IO_reader_get(r)
ReaderRead == \E r \in Workers : IO_reader_read(r)
ReaderPut == \E r \in Workers : IO_reader_put(r)
ReaderSentinel == \E r \in Workers : IO_reader_sentinel(r)

\* IO.read(block, sync): self._inqueue.put(block); with sync the caller goes on
\* to self.get()
IO_read(block, sync) ==
    /\ engine = "io"
    /\ ioPc = "open"
    /\ mode = "r"
    /\ Len(ioSubmitted) < workload.reads
    /\ ioInqueue' = Append(ioInqueue, <<block>>)
    /\ ioSubmitted' = Append(ioSubmitted, <<block>>)
    /\ ioPc' = IF sync THEN "sync_get" ELSE "open"
    /\ ioWant' = IF sync THEN block ELSE ioWant
    /\ ioErr' = "none"
    /\ UNCHANGED <<s3Vars, engine, cfg, workload, mode, fileExists, fileData, wfOpen, wfPos,
                   ioWriteQueue, ioWPc, ioWEntry, ioOutqueue, ioRPc, ioRBlock,
                   ioRData, ioK, ioReceived>>

Read ==
    \E block \in BlockIds, sync \in workload.sync : IO_read(block, sync)

\* IO.get(), called by the consumer of asynchronous reads
IO_get ==
    /\ engine = "io"
    /\ mode = "r"
    /\ ioPc \in {"open", "close_put", "closed"}
    /\ ioOutqueue # <<>>
    /\ ioOutqueue' = Tail(ioOutqueue)
    /\ ioReceived' = Append(ioReceived, Head(ioOutqueue))
    /\ UNCHANGED <<s3Vars, engine, cfg, workload, mode, fileExists, fileData, wfOpen, wfPos,
                   ioWriteQueue, ioWPc, ioWEntry, ioInqueue, ioRPc, ioRBlock, ioRData,
                   ioPc, ioK, ioSubmitted, ioErr, ioWant>>

\* faulty variant: read(block, sync=True) returns the data without comparing ids
IO_read_sync_get_unchecked ==
    /\ engine = "io"
    /\ ioPc = "sync_get"
    /\ ioOutqueue # <<>>
    /\ ioOutqueue' = Tail(ioOutqueue)
    /\ ioReceived' = Append(ioReceived, Head(ioOutqueue))
    /\ ioErr' = "none"
    /\ ioPc' = "open"
    /\ UNCHANGED <<s3Vars, engine, cfg, workload, mode, fileExists, fileData, wfOpen, wfPos,
                   ioWriteQueue, ioWPc, ioWEntry, ioInqueue, ioRPc, ioRBlock, ioRData,
                   ioK, ioSubmitted, ioWant>>

\* IO.read(block, sync=True), second half: rblock, data, checksum = self.get();
\* a result for another block id raises
IO_read_sync_get ==
    /\ engine = "io"
    /\ ioPc = "sync_get"
    /\ ioOutqueue # <<>>
    /\ ioOutqueue' = Tail(ioOutqueue)
    /\ ioReceived' = Append(ioReceived, Head(ioOutqueue))
    /\ ioErr' = IF Head(ioOutqueue)[1] # ioWant
                THEN "Do not mix threaded reading with sync reading!"
                ELSE "none"
    /\ ioPc' = "open"
    /\ UNCHANGED <<s3Vars, engine, cfg, workload, mode, fileExists, fileData, wfOpen, wfPos,
                   ioWriteQueue, ioWPc, ioWEntry, ioInqueue, ioRPc, ioRBlock, ioRData,
                   ioK, ioSubmitted, ioWant>>

NextFileR ==
    \/ IO_open_r
    \/ ReaderOpen
    \/ ReaderGet
    \/ ReaderRead
    \/ ReaderPut
    \/ ReaderSentinel
    \/ Read
    \/ IO_get
    \/ IO_read_sync_get
    \/ IO_close_put
    \/ IO_close_join

SpecFileR == InitIO /\ [][NextFileR]_vars

\* threads are scheduled by the OS: no thread that can take its next step is
\* starved, and the consumer keeps calling get()
FairFileR ==
    /\ \A r \in Workers : WF_vars(IO_reader(r))
    /\ WF_vars(IO_get)
    /\ WF_vars(IO_read_sync_get)

FairSpecFileR == SpecFileR /\ FairFileR

NextFileW ==
    \/ OpenW
    \/ Write
    \/ WriterGet
    \/ WriterSeek
    \/ WriterWrite
    \/ IO_close_put
    \/ IO_close_join

SpecFileW == InitIO /\ [][NextFileW]_vars
(* ----------------------------- S3 backend ------------------------------- *)
S3Writers == 1..cfg.writes
S3Readers == 1..cfg.reads

\* DataBackend.__init__: the three queues are created and both pools started;
\* the bucket holds one object from an earlier run
InitS3With(load) ==
    /\ engine = "s3"
    /\ workload = load
    /\ cfg \in [reads : Workers, writes : Workers]
    /\ fileExists = FALSE
    /\ fileData = <<>>
    /\ InitIOVars
    /\ store = [u \in Uids |-> IF u = OldUid THEN Payload(1) ELSE None]
    /\ fatal_error = None
    /\ s3WriteQueue = <<>>
    /\ s3Unfinished = 0
    /\ s3ReadQueue = <<>>
    /\ s3ReadDataQueue = <<>>
    /\ s3WPc = [w \in Workers |-> IF w \in S3Writers THEN "get" ELSE "off"]
    /\ s3WEntry = [w \in Workers |-> None]
    /\ s3RPc = [r \in Workers |-> IF r \in S3Readers THEN "get" ELSE "off"]
    /\ s3RBlock = [r \in Workers |-> None]
    /\ s3RData = [r \in Workers |-> None]
    /\ s3RTries = [r \in Workers |-> 0]
    /\ s3RExc = [r \in Workers |-> "none"]
    /\ s3Pc = "run"
    /\ s3K = 0
    /\ s3NextUid = 0
    /\ s3Want = None
    /\ s3Err = "none"
    /\ s3Reads = 0
    /\ s3Saved = [u \in Uids |-> None]
    /\ s3Returned = [u \in Uids |-> "no"]
    /\ s3Got = <<>>

InitS3 == InitS3With(MixedLoad)

\* faulty variant: the write queue is constructed without a maxsize
S3WriteQueueUnbounded == BulkJobs + 1

\* self.write_queue_length, self.read_queue_length
S3WriteQueueCap == cfg.writes + S3_WRITE_QUEUE_LENGTH
S3ReadDataQueueCap == cfg.reads + S3_READ_QUEUE_LENGTH

\* DataBackend.save(data, _sync): raise fatal_error if set; uid = self._uid();
\* self._write_queue.put((uid, data)); with _sync the caller goes on to join()
S3_save(data, sync) ==
    /\ engine = "s3"
    /\ s3Pc = "run"
    /\ s3NextUid < workload.saves
    /\ s3NextUid + s3Reads < workload.s3calls
    /\ IF fatal_error # None
       THEN /\ s3Err' = "fatal_error"
            /\ UNCHANGED <<s3WriteQueue, s3Unfinished, s3NextUid, s3Saved, s3Returned, s3Pc>>
       ELSE /\ Len(s3WriteQueue) < S3WriteQueueCap
            /\ s3WriteQueue' = Append(s3WriteQueue, <<s3NextUid + 1, data>>)
            /\ s3Unfinished' = s3Unfinished + 1
            /\ s3NextUid' = s3NextUid + 1
            /\ s3Saved' = [s3Saved EXCEPT ![s3NextUid + 1] = data]
            /\ s3Returned' = IF sync THEN s3Returned
                             ELSE [s3Returned EXCEPT ![s3NextUid + 1] = "async"]
            /\ s3Pc' = IF sync THEN "save_join" ELSE "run"
            /\ s3Err' = "none"
    /\ UNCHANGED <<engine, cfg, workload, ioVars, store, fatal_error, s3ReadQueue, s3ReadDataQueue,
                   s3WPc, s3WEntry, s3RPc, s3RBlock, s3RData, s3RTries, s3RExc, s3K,
                   s3Want, s3Reads, s3Got>>

Save == \E data \in DataSet, sync \in workload.sync : S3_save(data, sync)

\* faulty variant: join() returns although puts are not yet task_done()
S3_write_queue_joined_early == TRUE

\* Queue.join() of the write queue returns: every put has been task_done()
S3_write_queue_joined == s3Unfinished = 0

\* DataBackend.save(data, _sync=True), second half: self._write_queue.join()
\* returns, save returns the uid
S3_save_join ==
    /\ engine = "s3"
    /\ s3Pc = "save_join"
    /\ S3_write_queue_joined
    /\ s3Returned' = [s3Returned EXCEPT ![s3NextUid] = "sync"]
    /\ s3Pc' = "run"
    /\ UNCHANGED <<engine, cfg, workload, ioVars, store, fatal_error, s3WriteQueue, s3Unfinished,
                   s3ReadQueue, s3ReadDataQueue, s3WPc, s3WEntry, s3RPc, s3RBlock,
                   s3RData, s3RTries, s3RExc, s3K, s3NextUid, s3Want, s3Err, s3Reads,
                   s3Saved, s3Got>>

\* faulty variant: the writer thread ends on the None sentinel only
S3_writer_get_ignores_fatal_error(w) ==
    /\ s3WPc[w] = "get"
    /\ s3WriteQueue # <<>>
    /\ s3WriteQueue' = Tail(s3WriteQueue)
    /\ s3WEntry' = [s3WEntry EXCEPT ![w] = Head(s3WriteQueue)]
    /\ s3WPc' = [s3WPc EXCEPT ![w] =
                    IF Head(s3WriteQueue) = None THEN "done" ELSE "put"]
    /\ UNCHANGED <<engine, cfg, workload, ioVars, store, fatal_error, s3Unfinished, s3ReadQueue,
                   s3ReadDataQueue, s3RPc, s3RBlock, s3RData, s3RTries, s3RExc, s3Pc,
                   s3K, s3NextUid, s3Want, s3Err, s3Reads, s3Saved, s3Returned, s3Got>>

\* DataBackend._writer: entry = self._write_queue.get(); None or a set
\* fatal_error ends the thread
S3_writer_get(w) ==
    /\ s3WPc[w] = "get"
    /\ s3WriteQueue # <<>>
    /\ s3WriteQueue' = Tail(s3WriteQueue)
    /\ s3WEntry' = [s3WEntry EXCEPT ![w] = Head(s3WriteQueue)]
    /\ s3WPc' = [s3WPc EXCEPT ![w] =
                    IF Head(s3WriteQueue) = None \/ fatal_error # None
                    THEN "done" ELSE "put"]
    /\ UNCHANGED <<engine, cfg, workload, ioVars, store, fatal_error, s3Unfinished, s3ReadQueue,
                   s3ReadDataQueue, s3RPc, s3RBlock, s3RData, s3RTries, s3RExc, s3Pc,
                   s3K, s3NextUid, s3Want, s3Err, s3Reads, s3Saved, s3Returned, s3Got>>

\* DataBackend._writer: obj.put(Body=data) succeeds; self._write_queue.task_done()
S3_writer_put(w) ==
    /\ s3WPc[w] = "put"
    /\ store' = [store EXCEPT ![s3WEntry[w][1]] = s3WEntry[w][2]]
    /\ s3Unfinished' = s3Unfinished - 1
    /\ s3WPc' = [s3WPc EXCEPT ![w] = "get"]
    /\ UNCHANGED <<engine, cfg, workload, ioVars, fatal_error, s3WriteQueue, s3WEntry, s3ReadQueue,
                   s3ReadDataQueue, s3RPc, s3RBlock, s3RData, s3RTries, s3RExc, s3Pc,
                   s3K, s3NextUid, s3Want, s3Err, s3Reads, s3Saved, s3Returned, s3Got>>

\* faulty variant: task_done() is called although obj.put(Body=data) raised
S3_writer_put_fails_task_done(w) ==
    /\ s3WPc[w] = "put"
    /\ s3WPc' = [s3WPc EXCEPT ![w] = "dead"]
    /\ s3Unfinished' = s3Unfinished - 1
    /\ UNCHANGED <<engine, cfg, workload, ioVars, store, fatal_error, s3WriteQueue,
                   s3WEntry, s3ReadQueue, s3ReadDataQueue, s3RPc, s3RBlock, s3RData,
                   s3RTries, s3RExc, s3Pc, s3K, s3NextUid, s3Want, s3Err, s3Reads,
                   s3Saved, s3Returned, s3Got>>

\* DataBackend._writer: obj.put(Body=data) raises; nothing in _writer catches
\* it, so the exception ends the thread (no task_done, no assignment to
\* fatal_error)
S3_writer_put_fails(w) ==
    /\ s3WPc[w] = "put"
    /\ s3WPc' = [s3WPc EXCEPT ![w] = "dead"]
    /\ UNCHANGED <<engine, cfg, workload, ioVars, store, fatal_error, s3WriteQueue, s3Unfinished,
                   s3WEntry, s3ReadQueue, s3ReadDataQueue, s3RPc, s3RBlock, s3RData,
                   s3RTries, s3RExc, s3Pc, s3K, s3NextUid, s3Want, s3Err, s3Reads,
                   s3Saved, s3Returned, s3Got>>

S3WriterGet == \E w \in Workers : S3_writer_get(w)
S3WriterPut == \E w \in Workers : S3_writer_put(w)
S3WriterPutFails == \E w \in Workers : S3_writer_put_fails(w)

\* DataBackend._reader: block = self._read_queue.get(); None or a set
\* fatal_error ends the thread
S3_reader_get(r) ==
    /\ s3RPc[r] = "get"
    /\ s3ReadQueue # <<>>
    /\ s3ReadQueue' = Tail(s3ReadQueue)
    /\ IF Head(s3ReadQueue) = None \/ fatal_error # None
       THEN /\ s3RPc' = [s3RPc EXCEPT ![r] = "done"]
            /\ UNCHANGED <<s3RBlock, s3RTries>>
       ELSE /\ s3RPc' = [s3RPc EXCEPT ![r] = "read_raw"]
            /\ s3RBlock' = [s3RBlock EXCEPT ![r] = Head(s3ReadQueue)]
            /\ s3RTries' = [s3RTries EXCEPT ![r] = 0]
    /\ UNCHANGED <<engine, cfg, workload, ioVars, store, fatal_error, s3WriteQueue, s3Unfinished,
                   s3ReadDataQueue, s3WPc, s3WEntry, s3RData, s3RExc, s3Pc, s3K,
                   s3NextUid, s3Want, s3Err, s3Reads, s3Saved, s3Returned, s3Got>>

\* DataBackend.read_raw, the ClientError handler for 'NoSuchKey' / '404':
\* raise FileNotFoundError('Key {} not found.'.format(key)); the name key is
\* bound nowhere in read_raw or the module, so evaluating the argument raises
\* NameError and that is the exception that leaves read_raw
read_raw_missing_exception == "NameError"

\* DataBackend.read_raw inside _reader: one get_object attempt with a final
\* outcome.  The body is returned when the key exists.  For a missing key
\* read_raw raises; _reader catches FileNotFoundError only (and then has
\* (block, None) to put), any other exception ends the thread.
S3_read_raw(r) ==
    /\ s3RPc[r] = "read_raw"
    /\ LET body == store[s3RBlock[r][2]]
       IN  IF body # None
           THEN /\ s3RData' = [s3RData EXCEPT ![r] = body]
                /\ s3RPc' = [s3RPc EXCEPT ![r] = "put"]
                /\ UNCHANGED s3RExc
           ELSE IF read_raw_missing_exception = "FileNotFoundError"
           THEN /\ s3RData' = [s3RData EXCEPT ![r] = None]
                /\ s3RPc' = [s3RPc EXCEPT ![r] = "put"]
                /\ UNCHANGED s3RExc
           ELSE /\ s3RPc' = [s3RPc EXCEPT ![r] = "dead"]
                /\ s3RExc' = [s3RExc EXCEPT ![r] = read_raw_missing_exception]
                /\ UNCHANGED s3RData
    /\ UNCHANGED <<engine, cfg, workload, ioVars, store, fatal_error, s3WriteQueue, s3Unfinished,
                   s3ReadQueue, s3ReadDataQueue, s3WPc, s3WEntry, s3RBlock, s3RTries,
                   s3Pc, s3K, s3NextUid, s3Want, s3Err, s3Reads, s3Saved, s3Returned,
                   s3Got>>

\* DataBackend.read_raw: socket.timeout or OSError from get_object: logged, the
\* while loop makes another attempt
S3_read_raw_retry(r) ==
    /\ s3RPc[r] = "read_raw"
    /\ s3RTries[r] < MaxRetries
    /\ s3RTries' = [s3RTries EXCEPT ![r] = s3RTries[r] + 1]
    /\ UNCHANGED <<engine, cfg, workload, ioVars, store, fatal_error, s3WriteQueue, s3Unfinished,
                   s3ReadQueue, s3ReadDataQueue, s3WPc, s3WEntry, s3RPc, s3RBlock,
                   s3RData, s3RExc, s3Pc, s3K, s3NextUid, s3Want, s3Err, s3Reads,
                   s3Saved, s3Returned, s3Got>>

\* DataBackend.read_raw: any other ClientError is re-raised; _reader does not
\* catch it and the thread ends
S3_read_raw_error(r) ==
    /\ s3RPc[r] = "read_raw"
    /\ s3RPc' = [s3RPc EXCEPT ![r] = "dead"]
    /\ s3RExc' = [s3RExc EXCEPT ![r] = "ClientError"]
    /\ UNCHANGED <<engine, cfg, workload, ioVars, store, fatal_error, s3WriteQueue, s3Unfinished,
                   s3ReadQueue, s3ReadDataQueue, s3WPc, s3WEntry, s3RBlock, s3RData,
                   s3RTries, s3Pc, s3K, s3NextUid, s3Want, s3Err, s3Reads, s3Saved,
                   s3Returned, s3Got>>

\* faulty variant: the result is put at the head of the result queue
S3_reader_put_front(r) ==
    /\ s3RPc[r] = "put"
    /\ Len(s3ReadDataQueue) < S3ReadDataQueueCap
    /\ s3ReadDataQueue' = <<<<s3RBlock[r], s3RData[r]>>>> \o s3ReadDataQueue
    /\ s3RPc' = [s3RPc EXCEPT ![r] = "get"]
    /\ UNCHANGED <<engine, cfg, workload, ioVars, store, fatal_error, s3WriteQueue, s3Unfinished,
                   s3ReadQueue, s3WPc, s3WEntry, s3RBlock, s3RData, s3RTries, s3RExc,
                   s3Pc, s3K, s3NextUid, s3Want, s3Err, s3Reads, s3Saved, s3Returned,
                   s3Got>>

\* DataBackend._reader: self._read_data_queue.put((block, data))
S3_reader_put(r) ==
    /\ s3RPc[r] = "put"
    /\ Len(s3ReadDataQueue) < S3ReadDataQueueCap
    /\ s3ReadDataQueue' = Append(s3ReadDataQueue, <<s3RBlock[r], s3RData[r]>>)
    /\ s3RPc' = [s3RPc EXCEPT ![r] = "get"]
    /\ UNCHANGED <<engine, cfg, workload, ioVars, store, fatal_error, s3WriteQueue, s3Unfinished,
                   s3ReadQueue, s3WPc, s3WEntry, s3RBlock, s3RData, s3RTries, s3RExc,
                   s3Pc, s3K, s3NextUid, s3Want, s3Err, s3Reads, s3Saved, s3Returned,
                   s3Got>>

S3ReaderGet == \E r \in Workers : S3_reader_get(r)
S3ReadRaw == \E r \in Workers : S3_read_raw(r)
S3ReadRawRetry == \E r \in Workers : S3_read_raw_retry(r)
S3ReadRawError == \E r \in Workers : S3_read_raw_error(r)
S3ReaderPut == \E r \in Workers : S3_reader_put(r)

\* how the save() that returned uid was called: "no" while none has returned it
\* (history, carried by the block a read is issued for)
SaveTag(uid) == IF uid = OldUid THEN "old" ELSE s3Returned[uid]

\* the id of the block the caller stores under uid
S3BlockId(uid) == uid % (workload.blocks + 1)

\* the number of the Block object handed to the next read() call
BlockNumber == IF workload.fresh THEN s3Reads + 1 ELSE 0

\* DataBackend.read(block, sync): self._read_queue.put(block); with sync the
\* caller goes on to read_get().  A block is (id, uid, history tag, number): a
\* caller that makes a fresh Block object for every read() call numbers them in
\* call order, one that hands in the same object again and again does not.
S3_read(id, uid, sync) ==
    /\ engine = "s3"
    /\ s3Pc = "run"
    /\ s3Reads < workload.s3reads
    /\ s3NextUid + s3Reads < workload.s3calls
    /\ s3Reads' = s3Reads + 1
    /\ s3ReadQueue' = Append(s3ReadQueue, <<id, uid, SaveTag(uid), BlockNumber>>)
    /\ s3Want' = IF sync THEN <<id, uid, SaveTag(uid), BlockNumber>> ELSE s3Want
    /\ s3Pc' = IF sync THEN "read_get" ELSE "run"
    /\ s3Err' = "none"
    /\ UNCHANGED <<engine, cfg, workload, ioVars, store, fatal_error, s3WriteQueue, s3Unfinished,
                   s3ReadDataQueue, s3WPc, s3WEntry, s3RPc, s3RBlock, s3RData, s3RTries,
                   s3RExc, s3K, s3NextUid, s3Saved, s3Returned, s3Got>>

S3Read == \E uid \in Uids, sync \in workload.sync : S3_read(S3BlockId(uid), uid, sync)

\* DataBackend.read_get(): block, data = self._read_data_queue.get();
\* length = len(data) raises TypeError for data None; task_done(); return
S3_read_get ==
    /\ engine = "s3"
    /\ s3Pc \in {"run", "closed"}
    /\ s3ReadDataQueue # <<>>
    /\ s3ReadDataQueue' = Tail(s3ReadDataQueue)
    /\ IF Head(s3ReadDataQueue)[2] = None
       THEN /\ s3Err' = "TypeError"
            /\ UNCHANGED s3Got
       ELSE /\ s3Err' = "none"
            /\ s3Got' = Append(s3Got, Head(s3ReadDataQueue))
    /\ UNCHANGED <<engine, cfg, workload, ioVars, store, fatal_error, s3WriteQueue, s3Unfinished,
                   s3ReadQueue, s3WPc, s3WEntry, s3RPc, s3RBlock, s3RData, s3RTries,
                   s3RExc, s3Pc, s3K, s3NextUid, s3Want, s3Reads, s3Saved, s3Returned>>

\* DataBackend.read(block, sync=True), second half: read_get(), then the checks
\* of read: another block id raises RuntimeError, data None FileNotFoundError
S3_read_sync_get ==
    /\ engine = "s3"
    /\ s3Pc = "read_get"
    /\ s3ReadDataQueue # <<>>
    /\ s3ReadDataQueue' = Tail(s3ReadDataQueue)
    /\ LET rblock == Head(s3ReadDataQueue)[1]
           data == Head(s3ReadDataQueue)[2]
       IN  IF data = None
           THEN s3Err' = "TypeError" /\ UNCHANGED s3Got
           ELSE IF rblock[1] # s3Want[1]
           THEN s3Err' = "Do not mix threaded reading with sync reading!"
                /\ UNCHANGED s3Got
           ELSE IF data = None
           THEN s3Err' = "FileNotFoundError" /\ UNCHANGED s3Got
           ELSE s3Err' = "none" /\ s3Got' = Append(s3Got, <<rblock, data>>)
    /\ s3Pc' = "run"
    /\ UNCHANGED <<engine, cfg, workload, ioVars, store, fatal_error, s3WriteQueue, s3Unfinished,
                   s3ReadQueue, s3WPc, s3WEntry, s3RPc, s3RBlock, s3RData, s3RTries,
                   s3RExc, s3K, s3NextUid, s3Want, s3Reads, s3Saved, s3Returned>>

\* DataBackend.close(), first loop: one None per writer thread
S3_close_put_w ==
    /\ engine = "s3"
    /\ s3Pc \in {"run", "close_w"}
    /\ s3K < cfg.writes
    /\ Len(s3WriteQueue) < S3WriteQueueCap
    /\ s3WriteQueue' = Append(s3WriteQueue, None)
    /\ s3Unfinished' = s3Unfinished + 1
    /\ s3K' = s3K + 1
    /\ s3Pc' = "close_w"
    /\ UNCHANGED <<engine, cfg, workload, ioVars, store, fatal_error, s3ReadQueue, s3ReadDataQueue,
                   s3WPc, s3WEntry, s3RPc, s3RBlock, s3RData, s3RTries, s3RExc,
                   s3NextUid, s3Want, s3Err, s3Reads, s3Saved, s3Returned, s3Got>>

\* faulty variant: close() does not join the reader threads
S3_readers_not_joined == TRUE

\* the joins of close() return: every thread of the pool has ended
S3_writers_joined == \A w \in S3Writers : Terminated(s3WPc[w])
S3_readers_joined == \A r \in S3Readers : Terminated(s3RPc[r])

\* DataBackend.close(), second loop: every writer thread is joined
S3_close_join_w ==
    /\ engine = "s3"
    /\ s3Pc = "close_w"
    /\ s3K = cfg.writes
    /\ S3_writers_joined
    /\ s3K' = 0
    /\ s3Pc' = "close_r"
    /\ UNCHANGED <<engine, cfg, workload, ioVars, store, fatal_error, s3WriteQueue, s3Unfinished,
                   s3ReadQueue, s3ReadDataQueue, s3WPc, s3WEntry, s3RPc, s3RBlock,
                   s3RData, s3RTries, s3RExc, s3NextUid, s3Want, s3Err, s3Reads,
                   s3Saved, s3Returned, s3Got>>

\* DataBackend.close(), third loop: one None per reader thread
S3_close_put_r ==
    /\ engine = "s3"
    /\ s3Pc = "close_r"
    /\ s3K < cfg.reads
    /\ s3ReadQueue' = Append(s3ReadQueue, None)
    /\ s3K' = s3K + 1
    /\ UNCHANGED <<engine, cfg, workload, ioVars, store, fatal_error, s3WriteQueue, s3Unfinished,
                   s3ReadDataQueue, s3WPc, s3WEntry, s3RPc, s3RBlock, s3RData, s3RTries,
                   s3RExc, s3Pc, s3NextUid, s3Want, s3Err, s3Reads, s3Saved, s3Returned,
                   s3Got>>

\* DataBackend.close(), fourth loop: every reader thread is joined; close returns
S3_close_join_r ==
    /\ engine = "s3"
    /\ s3Pc = "close_r"
    /\ s3K = cfg.reads
    /\ S3_readers_joined
    /\ s3Pc' = "closed"
    /\ UNCHANGED <<engine, cfg, workload, ioVars, store, fatal_error, s3WriteQueue, s3Unfinished,
                   s3ReadQueue, s3ReadDataQueue, s3WPc, s3WEntry, s3RPc, s3RBlock,
                   s3RData, s3RTries, s3RExc, s3K, s3NextUid, s3Want, s3Err, s3Reads,
                   s3Saved, s3Returned, s3Got>>

NextS3 ==
    \/ Save
    \/ S3_save_join
    \/ S3WriterGet
    \/ S3WriterPut
    \/ S3WriterPutFails
    \/ S3ReaderGet
    \/ S3ReadRaw
    \/ S3ReadRawRetry
    \/ S3ReadRawError
    \/ S3ReaderPut
    \/ S3Read
    \/ S3_read_get
    \/ S3_read_sync_get
    \/ S3_close_put_w
    \/ S3_close_join_w
    \/ S3_close_put_r
    \/ S3_close_join_r

SpecS3 == InitS3 /\ [][NextS3]_vars

(* ------------------- S3 backend, synchronous deletion ------------------- *)
\* DataBackend.rm(uid) on bucket st: obj.load() raises ClientError 404 for a
\* missing key, which rm turns into FileNotFoundError; else obj.delete()
S3_rm(st, uid) ==
    IF st[uid] = None
    THEN [store |-> st, err |-> "FileNotFoundError"]
    ELSE [store |-> [st EXCEPT ![uid] = None], err |-> "none"]

\* DataBackend.rm_many(uids): for uid in uids: self.rm(uid); an exception of rm
\* leaves the loop and rm_many; there is no return statement
RECURSIVE rm_many_from(_, _, _)
rm_many_from(st, uids, i) ==
    IF i > Len(uids) THEN [store |-> st, err |-> "none"]
    ELSE LET r == S3_rm(st, uids[i])
         IN  IF r.err # "none" THEN r ELSE rm_many_from(r.store, uids, i + 1)

S3_rm_many(uids) ==
    /\ engine = "s3"
    /\ s3Pc = "run"
    /\ LET r == rm_many_from(store, uids, 1)
       IN  /\ store' = r.store
           /\ s3Err' = r.err
    /\ UNCHANGED <<engine, cfg, workload, ioVars, fatal_error, s3WriteQueue, s3Unfinished,
                   s3ReadQueue, s3ReadDataQueue, s3WPc, s3WEntry, s3RPc, s3RBlock,
                   s3RData, s3RTries, s3RExc, s3Pc, s3K, s3NextUid, s3Want, s3Reads,
                   s3Saved, s3Returned, s3Got>>

\* the uid lists a caller hands to rm_many
RmLists == UNION {[1..n -> Uids] : n \in 1..MaxRmUids}

RmMany == \E uids \in RmLists : S3_rm_many(uids)

NextS3Rm ==
    \/ Save
    \/ S3_save_join
    \/ S3WriterGet
    \/ S3WriterPut
    \/ RmMany

SpecS3Rm == InitS3 /\ [][NextS3Rm]_vars

(* ----------------------- S3 backend, poisoned --------------------------- *)
\* DataBackend.fatal_error is a class attribute that save, _writer and _reader
\* read and that no method of the class assigns: it is set, if ever, by an
\* assignment from outside the class, at any moment, to an exception object
S3_set_fatal_error ==
    /\ engine = "s3"
    /\ fatal_error = None
    /\ fatal_error' = <<"Exception">>
    /\ UNCHANGED <<engine, cfg, workload, ioVars, store, s3WriteQueue, s3Unfinished,
                   s3ReadQueue, s3ReadDataQueue, s3WPc, s3WEntry, s3RPc, s3RBlock,
                   s3RData, s3RTries, s3RExc, s3Pc, s3K, s3NextUid, s3Want, s3Err,
                   s3Reads, s3Saved, s3Returned, s3Got>>

\* the workload of a caller of a backend that may get poisoned
FatalLoad == [MixedLoad EXCEPT !.s3reads = MaxFatalReads]

NextS3Fatal == NextS3 \/ S3_set_fatal_error

InitS3Fatal == InitS3With(FatalLoad)

SpecS3Fatal == InitS3Fatal /\ [][NextS3Fatal]_vars

(* --------------------- reading, both engines ---------------------------- *)
\* a caller that issues synchronous reads (and saves) only
SyncLoad == [MixedLoad EXCEPT !.sync = {TRUE}]

InitSyncRead ==
    \/ InitIO
    \/ InitS3
    \/ InitIOWith(SyncLoad)
    \/ InitS3With(SyncLoad)

NextSyncRead == NextFileR \/ NextS3

SpecSyncRead == InitSyncRead /\ [][NextSyncRead]_vars

(* --------------------------- the whole program -------------------------- *)
Init == InitIO \/ InitS3

Next == NextFileW \/ NextFileR \/ NextS3

Spec == Init /\ [][Next]_vars

(* ------------------------------ bulk load ------------------------------- *)
\* a caller that submits BulkJobs asynchronous jobs of one kind, all for the same
\* Block object and payload, to an engine whose threads and store do not fail
BulkLoadIO ==
    [writes |-> BulkJobs, reads |-> BulkJobs, saves |-> 0, s3reads |-> 0,
     s3calls |-> 0, payloads |-> 1, blocks |-> 0, sync |-> {FALSE}, fresh |-> FALSE]
BulkLoadS3Save ==
    [writes |-> 0, reads |-> 0, saves |-> BulkJobs, s3reads |-> 0,
     s3calls |-> BulkJobs, payloads |-> 1, blocks |-> 0, sync |-> {FALSE}, fresh |-> FALSE]
BulkLoadS3Read ==
    [writes |-> 0, reads |-> 0, saves |-> 0, s3reads |-> BulkJobs,
     s3calls |-> BulkJobs, payloads |-> 1, blocks |-> 0, sync |-> {FALSE}, fresh |-> FALSE]

InitBulk ==
    \/ InitIOWith(BulkLoadIO)
    \/ InitS3With(BulkLoadS3Save)
    \/ InitS3With(BulkLoadS3Read)

NextBulk ==
    \/ OpenW
    \/ Write
    \/ WriterGet
    \/ WriterSeek
    \/ WriterWrite
    \/ IO_open_r
    \/ ReaderOpen
    \/ ReaderGet
    \/ ReaderRead
    \/ ReaderPut
    \/ Read
    \/ IO_get
    \/ Save
    \/ S3WriterGet
    \/ S3WriterPut
    \/ S3ReaderGet
    \/ S3ReadRaw
    \/ S3ReaderPut
    \/ S3Read
    \/ S3_read_get

SpecBulk == InitBulk /\ [][NextBulk]_vars

\* the same bulk load of asynchronous reads on a file engine, with close()
NextBulkRead ==
    \/ IO_open_r
    \/ ReaderOpen
    \/ ReaderGet
    \/ ReaderRead
    \/ ReaderPut
    \/ ReaderSentinel
    \/ Read
    \/ IO_get
    \/ IO_close_put
    \/ IO_close_join

InitBulkRead == InitIOWith(BulkLoadIO)

SpecBulkRead == InitBulkRead /\ [][NextBulkRead]_vars

(* ------------------------------- claims --------------------------------- *)
DistinctIds(jobs) ==
    \A i, j \in DOMAIN jobs : i # j => jobs[i][1] # jobs[j][1]

\* the results (block, data, checksum) among what get() returned
Results(seq) == {i \in DOMAIN seq : seq[i] # None}
\* how often block id b occurs among the jobs or results of seq
CountBlock(seq, b) == Cardinality({i \in Results(seq) : seq[i][1] = b})
\* how often block id b is held by a reader thread that has not yet put it
HeldBlock(b) ==
    Cardinality({r \in Workers : ioRPc[r] \in {"read", "put"} /\ ioRBlock[r] = b})
\* a reader thread ended with an exception (missing file, EOF)
IOReadError == \E r \in Workers : ioRPc[r] = "dead"

\* C1: after open_w, write() calls with pairwise distinct block ids and close(),
\* the file holds every written block's data at offset block.id * block_size,
\* for any number of writer threads and any interleaving.
C1_EachBlockAtItsOffset ==
    (/\ engine = "io" /\ mode = "w" /\ ioPc = "closed"
     /\ ioWriteQueue = <<>>
     /\ DistinctIds(ioSubmitted))
    => \A k \in DOMAIN ioSubmitted :
          ReadAt(fileData, ioSubmitted[k][1] * BlockSize, Len(ioSubmitted[k][2]))
             = ioSubmitted[k][2]

\* C3: after n read() calls and close(), a consumer draining get() sees exactly
\* n results followed by one sentinel per reader thread: no sentinel comes
\* before a result.
C3_ResultsThenSentinels ==
    (/\ engine = "io" /\ mode = "r" /\ ioPc = "closed"
     /\ ioInqueue = <<>> /\ ioOutqueue = <<>>
     /\ ~IOReadError)
    => /\ Len(ioReceived) = Len(ioSubmitted) + IO_simultaneous_reads
       /\ \A i \in DOMAIN ioReceived :
             (ioReceived[i] = None) <=> (i > Len(ioSubmitted))

\* C7: every result a reader puts on the output queue has len(data) = block_size,
\* data equal to the file's bytes of that block, and checksum = hash(data),
\* whatever the file's length.
C7_ResultIsFullBlock ==
    \A i \in Results(ioOutqueue) :
        LET res == ioOutqueue[i]
        IN  /\ Len(res[2]) = BlockSize
            /\ res[2] = ReadAt(fileData, res[1] * BlockSize, BlockSize)
            /\ res[3] = hash_function(res[2])

\* no result is lost, duplicated or paired with another block's data: per block
\* id, returned + still in flight = submitted, and each result carries the
\* file's bytes of its own block
C8_Conservation ==
    /\ \A b \in 0..MaxBlockId :
          /\ CountBlock(ioReceived, b) <= CountBlock(ioSubmitted, b)
          /\ ~IOReadError =>
                CountBlock(ioReceived, b) + CountBlock(ioOutqueue, b)
                   + HeldBlock(b) + CountBlock(ioInqueue, b)
                = CountBlock(ioSubmitted, b)
    /\ \A i \in Results(ioReceived) :
          ioReceived[i][2] = ReadAt(fileData, ioReceived[i][1] * BlockSize, BlockSize)

\* C8: for one or two reader threads, with read() calls and a consumer that keeps
\* calling get(), under fair scheduling and without I/O error every submitted
\* block is eventually returned, and the blocks returned are, as a multiset,
\* the blocks submitted, each with its own data, in any order of arrival.
C8_EveryBlockReturned ==
    /\ []C8_Conservation
    /\ \A b \in 0..MaxBlockId : \A k \in 1..MaxReads :
          (CountBlock(ioSubmitted, b) >= k)
             ~> (CountBlock(ioReceived, b) >= k \/ IOReadError)

C8_Witness ==
    /\ engine = "io" /\ mode = "r" /\ IO_simultaneous_reads = 2
    /\ ~IOReadError
    /\ Len(ioSubmitted) = 2
    /\ Cardinality(Results(ioReceived)) = 2
    /\ ioReceived[1][1] # ioSubmitted[1][1]

\* the reads of blocks whose history tag is in tags that met a missing key: the
\* reader thread was ended by read_raw's exception, or (block, None) is on its
\* way to the caller
S3ObservedMissing(tags) ==
    \/ \E r \in Workers :
          /\ s3RPc[r] = "dead" /\ s3RExc[r] = read_raw_missing_exception
          /\ s3RBlock[r][3] \in tags
    \/ \E r \in Workers :
          s3RPc[r] = "put" /\ s3RData[r] = None /\ s3RBlock[r][3] \in tags
    \/ \E i \in DOMAIN s3ReadDataQueue :
          s3ReadDataQueue[i][2] = None /\ s3ReadDataQueue[i][1][3] \in tags

\* a result for a block whose tag is in tags carries other bytes than were saved
S3WrongContent(tags) ==
    \/ \E r \in Workers :
          /\ s3RPc[r] = "put" /\ s3RData[r] # None /\ s3RBlock[r][3] \in tags
          /\ s3RData[r] # s3Saved[s3RBlock[r][2]]
    \/ \E i \in DOMAIN s3ReadDataQueue :
          /\ s3ReadDataQueue[i][2] # None /\ s3ReadDataQueue[i][1][3] \in tags
          /\ s3ReadDataQueue[i][2] # s3Saved[s3ReadDataQueue[i][1][2]]
    \/ \E i \in DOMAIN s3Got :
          /\ s3Got[i][1][3] \in tags
          /\ s3Got[i][2] # s3Saved[s3Got[i][1][2]]

\* C2 (as claimed): a read of a block carrying uid U, issued after save(D)
\* returned U (sync or not), yields exactly D in every interleaving: it never
\* finds the object missing or with other content.
C2_ReadAfterSaveYieldsData ==
    /\ ~S3ObservedMissing({"async", "sync"})
    /\ ~S3WrongContent({"async", "sync"})

\* C2 (amended): a read of a block carrying uid U, issued after save(D,
\* sync=True) returned U, never finds the object missing or with other content;
\* the store holds D under U from the moment that save returned.
C2_ReadAfterSyncSaveYieldsData ==
    /\ ~S3ObservedMissing({"sync"})
    /\ ~S3WrongContent({"sync"})
    /\ \A u \in Uids : s3Returned[u] = "sync" => store[u] = s3Saved[u]

C2_Witness ==
    \E i \in DOMAIN s3Got :
        /\ s3Got[i][1][3] = "sync"
        /\ s3Got[i][2] = s3Saved[s3Got[i][1][2]]
        /\ s3Got[i][2] # store[OldUid]

\* C4: when the store answers 404 / NoSuchKey for block.uid, the reader thread
\* stays alive (and puts (block, None)): no reader thread is ended by the
\* exception read_raw raises for a missing key.
C4_MissingKeyLeavesReaderAlive ==
    \A r \in Workers :
        ~(s3RPc[r] = "dead" /\ s3RExc[r] = read_raw_missing_exception)

\* C5: when put_object fails inside a writer thread, fatal_error becomes set (and
\* poisons every later save()).
C5_WriteFailureSetsFatalError ==
    (\E w \in Workers : s3WPc[w] = "dead") => fatal_error # None

\* a read(block, sync=True) waits in read_get() for a result that no thread can
\* produce any more: the result queue and the read queue are empty and no
\* reader thread holds a block
S3SyncReadStuck ==
    /\ engine = "s3"
    /\ s3Pc = "read_get"
    /\ s3ReadDataQueue = <<>>
    /\ s3ReadQueue = <<>>
    /\ \A r \in Workers : s3RPc[r] \in {"off", "get", "done", "dead"}

\* C10: read(block, sync=True) on a block whose object is absent from the store
\* fails with FileNotFoundError: it never waits for a result that no reader
\* thread will deliver (reader threads ended by a provider error set aside).
C10_SyncReadOfMissingKeyRaisesFileNotFound ==
    ~(/\ S3SyncReadStuck
      /\ store[s3Want[2]] = None
      /\ \A r \in Workers : s3RExc[r] # "ClientError")

\* close() has returned
Closed == (engine = "io" /\ ioPc = "closed") \/ (engine = "s3" /\ s3Pc = "closed")
\* no reader or writer thread of either engine is alive
AllWorkersEnded ==
    \A t \in Workers :
        /\ Terminated(ioWPc[t]) /\ Terminated(ioRPc[t])
        /\ Terminated(s3WPc[t]) /\ Terminated(s3RPc[t])
\* nothing is appended to queue q in this step: it stays, or loses its head
NotAppended(q, qNext) == qNext = q \/ (q # <<>> /\ qNext = Tail(q))

\* C6: in every state after close() has returned, every reader and writer thread
\* of the engine has ended, and no step appends an item to an output queue
\* (the file engine's _outqueue, the backend's _read_data_queue).
C6_AfterCloseNoWorkerNoOutput ==
    /\ [](Closed => AllWorkersEnded)
    /\ [][Closed => /\ NotAppended(ioOutqueue, ioOutqueue')
                    /\ NotAppended(s3ReadDataQueue, s3ReadDataQueue')]_vars

C6_Witness ==
    /\ engine = "s3" /\ s3Pc = "closed"
    /\ cfg.reads = 2 /\ cfg.writes = 2
    /\ Len(s3Got) >= 1
    /\ s3NextUid >= 1
    /\ s3ReadDataQueue # <<>>

\* block payloads in flight per pipeline: queued, plus held by a thread that has
\* dequeued (writers) or read (readers) them and has not finished
Payloads(q) == Cardinality({i \in DOMAIN q : q[i] # None})
IOWriteInFlight ==
    Payloads(ioWriteQueue) + Cardinality({w \in Workers : ioWPc[w] \in {"seek", "write"}})
IOReadInFlight ==
    Payloads(ioOutqueue) + Cardinality({r \in Workers : ioRPc[r] = "put"})
S3WriteInFlight ==
    Payloads(s3WriteQueue) + Cardinality({w \in Workers : s3WPc[w] = "put"})
S3ReadInFlight ==
    Payloads(s3ReadDataQueue) + Cardinality({r \in Workers : s3RPc[r] = "put"})

\* C9 (as claimed): with a bounded queue of capacity C (pool size + 20) the
\* number of block payloads in flight, queued plus held by workers, is at most C
\* in every reachable state.
C9_InFlightAtMostCapacity ==
    /\ IOWriteInFlight <= IO_simultaneous_writes + IO_WRITE_QUEUE_LENGTH
    /\ IOReadInFlight <= IO_simultaneous_reads + IO_READ_QUEUE_LENGTH
    /\ S3WriteInFlight <= cfg.writes + S3_WRITE_QUEUE_LENGTH
    /\ S3ReadInFlight <= cfg.reads + S3_READ_QUEUE_LENGTH

\* C9 (amended): each bounded queue holds at most its capacity C (pool size +
\* 20), and the payloads in flight, queued plus held by the pool's threads,
\* are at most C plus the pool size.
C9_InFlightAtMostCapacityPlusPool ==
    /\ Len(ioWriteQueue) <= IO_simultaneous_writes + IO_WRITE_QUEUE_LENGTH
    /\ Len(ioOutqueue) <= IO_simultaneous_reads + IO_READ_QUEUE_LENGTH
    /\ Len(s3WriteQueue) <= cfg.writes + S3_WRITE_QUEUE_LENGTH
    /\ Len(s3ReadDataQueue) <= cfg.reads + S3_READ_QUEUE_LENGTH
    /\ IOWriteInFlight <= 2 * IO_simultaneous_writes + IO_WRITE_QUEUE_LENGTH
    /\ IOReadInFlight <= 2 * IO_simultaneous_reads + IO_READ_QUEUE_LENGTH
    /\ S3WriteInFlight <= 2 * cfg.writes + S3_WRITE_QUEUE_LENGTH
    /\ S3ReadInFlight <= 2 * cfg.reads + S3_READ_QUEUE_LENGTH

\* the write queue is full with every writer holding a payload, and the caller
\* has more to save: its next put blocks
C9_Witness ==
    /\ engine = "s3"
    /\ Len(s3WriteQueue) = cfg.writes + S3_WRITE_QUEUE_LENGTH
    /\ S3WriteInFlight = 2 * cfg.writes + S3_WRITE_QUEUE_LENGTH
    /\ s3NextUid < workload.saves
    /\ ~ENABLED Save

\* C11: rm_many(uids) attempts to delete every uid of the list: when the call
\* ends, no uid of the list is in the store any more, also the uids that come
\* after a uid that was missing.
C11_RmManyDeletesEveryUid ==
    [][\A uids \in RmLists :
          S3_rm_many(uids) => \A i \in DOMAIN uids : store'[uids[i]] = None]_vars

\* C12: in both engines a read(block, sync=True) that returns has dequeued a
\* result whose block id is the requested one and hands back the data read for
\* it; and a caller that issues synchronous reads only never gets the error
\* about mixing threaded and sync reading, with one reader thread or two.
C12_SyncReadReturnsRequestedBlock ==
    /\ [][(ioPc = "sync_get" /\ ioPc' = "open" /\ ioErr' = "none") =>
            LET got == ioReceived'[Len(ioReceived')]
            IN  /\ got[1] = ioWant
                /\ got[2] = ReadAt(fileData, ioWant * BlockSize, BlockSize)]_vars
    /\ [][(s3Pc = "read_get" /\ s3Pc' = "run" /\ s3Err' = "none") =>
            LET got == s3Got'[Len(s3Got')]
            IN  /\ got[1][1] = s3Want[1]
                /\ got[2] = store[got[1][2]]]_vars
    /\ [](workload.sync = {TRUE} =>
            /\ ioErr # "Do not mix threaded reading with sync reading!"
            /\ s3Err # "Do not mix threaded reading with sync reading!")

C12_Witness ==
    /\ engine = "io" /\ mode = "r" /\ ioPc = "open"
    /\ workload.sync = {TRUE}
    /\ IO_simultaneous_reads = 2
    /\ Len(ioReceived) = 2
    /\ ioReceived[1][1] # ioReceived[2][1]
    /\ ioErr = "none"

\* C13: when save(data, sync=True) returns uid U, the write queue is drained:
\* it is empty, no writer thread still holds a job, every job enqueued up to and
\* including (U, data) has been put, and the store holds data under U.
C13_SyncSaveReturnsAfterDrain ==
    [][(s3Pc = "save_join" /\ s3Pc' = "run") =>
          /\ s3WriteQueue' = <<>>
          /\ \A w \in Workers : s3WPc'[w] # "put"
          /\ \A u \in 1..s3NextUid : store'[u] = s3Saved[u]]_vars

C13_Witness ==
    /\ engine = "s3" /\ s3Pc = "run"
    /\ cfg.writes = 2
    /\ s3NextUid = 2
    /\ s3Returned[1] = "async"
    /\ s3Returned[2] = "sync"
    /\ s3Saved[1] # s3Saved[2]

\* C14: write(block, data) fails when no writer is open, before open_w and after
\* close(): once close() of a write-mode engine has returned, no job is
\* accepted into the write queue, and before open_w none is either.
C14_WriteWithoutWriterRejected ==
    (engine = "io" /\ (ioPc = "init" \/ (ioPc = "closed" /\ mode = "w")))
    => /\ \A i \in DOMAIN ioWriteQueue : ioWriteQueue[i] = None
       /\ Len(ioSubmitted) > 0 /\ ioPc = "init" => ioErr = "File not open."

\* a read(block, sync=True) waits in get() for a result that no thread can
\* produce any more: both queues are empty and no reader thread holds a block
IOSyncReadStuck ==
    /\ engine = "io"
    /\ ioPc = "sync_get"
    /\ ioOutqueue = <<>>
    /\ ioInqueue = <<>>
    /\ \A r \in Workers : ioRPc[r] \in {"off", "get", "done", "dead"}

\* C15: when a reader thread reads no data for a submitted block (EOF where
\* data is expected), the error reaches the caller: the read(block, sync=True)
\* that waits for the result fails, it is never left waiting for a result that
\* will not be produced.
C15_ReadFailureReachesCaller ==
    ~(/\ IOSyncReadStuck
      /\ fileExists
      /\ ReadAt(fileData, ioWant * BlockSize, BlockSize) = <<>>
      /\ \E r \in Workers : ioRPc[r] = "dead" /\ ioRBlock[r] = ioWant)

\* open_w returned: the write file is open and the writer threads are started
OpenWSucceeds ==
    /\ ioPc' = "open" /\ wfOpen' = "open"
    /\ \A w \in Workers : ioWPc'[w] = (IF w \in IOWriters THEN "get" ELSE "off")
\* open_w failed: nothing is opened, no writer thread is started, the file is
\* as it was
OpenWFails ==
    /\ ioPc' = "failed" /\ wfOpen' = "none"
    /\ \A w \in Workers : ioWPc'[w] = "off"
    /\ UNCHANGED <<fileExists, fileData>>

\* C16: open_w(path, size, force): an absent file is created with length exactly
\* size and the call succeeds; a present file without force fails; a present
\* file with force that is smaller than size fails; a present file with force
\* and length >= size succeeds and keeps its length (and content).  Writer
\* threads are started only when the call succeeds.
C16_OpenWOutcomes ==
    [][\A size \in 1..MaxFileLen, force \in BOOLEAN :
          IO_open_w(size, force) =>
             /\ ~fileExists =>
                   OpenWSucceeds /\ fileExists' /\ Len(fileData') = size
             /\ fileExists /\ ~force => OpenWFails
             /\ fileExists /\ force /\ Len(fileData) < size => OpenWFails
             /\ fileExists /\ force /\ Len(fileData) >= size =>
                   OpenWSucceeds /\ UNCHANGED <<fileExists, fileData>>]_vars

C16_Witness ==
    /\ engine = "io" /\ mode = "w" /\ ioPc = "open"
    /\ fileData = InitFile(MaxFileLen)
    /\ \A w \in IOWriters : ioWPc[w] = "get"
    /\ ioSubmitted = <<>>

\* C17: a read_raw call ends in one of three ways only: it returns the object's
\* data after a successful get_object, it raises the missing-key error
\* (FileNotFoundError) on 404 / NoSuchKey, or it raises the provider's error;
\* a socket timeout or OSError leaves the call running for another attempt.
C17_ReadRawEndsInOneOfThreeWays ==
    \A r \in Workers :
        /\ s3RExc[r] \in {"none", "FileNotFoundError", "ClientError"}
        /\ s3RPc[r] = "put" /\ s3RData[r] # None =>
              s3RData[r] = store[s3RBlock[r][2]]
        /\ s3RTries[r] > 0 /\ s3RExc[r] = "none" =>
              s3RPc[r] \in {"read_raw", "put", "get", "done"}

\* C18: in any state where fatal_error is set, save() raises it and leaves the
\* write queue as it is, and every writer and reader thread that dequeues an
\* entry ends without processing it: no put_object or get_object follows.
C18_PoisonedEngineDoesNoWork ==
    [][fatal_error # None =>
          /\ \A data \in DataSet, sync \in BOOLEAN :
                S3_save(data, sync) =>
                   /\ s3Err' = "fatal_error"
                   /\ UNCHANGED <<s3WriteQueue, s3Unfinished, s3NextUid, s3Pc>>
          /\ \A w \in Workers :
                (s3WPc[w] = "get" /\ s3WPc'[w] # "get") =>
                   s3WPc'[w] = "done" /\ UNCHANGED store
          /\ \A r \in Workers :
                (s3RPc[r] = "get" /\ s3RPc'[r] # "get") =>
                   s3RPc'[r] = "done" /\ UNCHANGED s3ReadDataQueue]_vars

C18_Witness ==
    /\ engine = "s3"
    /\ fatal_error # None
    /\ s3Err = "fatal_error"
    /\ \E w \in Workers : s3WPc[w] = "done" /\ s3WEntry[w] # None
    /\ \E r \in Workers : s3RPc[r] = "done" /\ s3K = 0

\* close() of a read-mode engine waits in its joins while every live reader
\* thread is blocked in put() on the full output queue: only a get() by a
\* consumer can let close() go on
IOCloseWaitsForConsumer ==
    /\ engine = "io" /\ mode = "r"
    /\ ioPc = "close_put" /\ ioK = IO_simultaneous_reads
    /\ ~IO_close_joined
    /\ Len(ioOutqueue) = IOOutqueueCap
    /\ \A r \in IOReaders : Terminated(ioRPc[r]) \/ ioRPc[r] \in {"put", "sentinel"}

\* C19: close() of a read-mode file engine terminates for any number of
\* submitted reads also when no consumer calls get(): the reader threads can
\* always deliver their results and sentinels, so close() is never left waiting
\* on threads that are blocked on the full output queue.
C19_CloseOfReaderNeverStuck == ~IOCloseWaitsForConsumer

\* C20: with exactly one reader thread the results come out in the order in
\* which the blocks were submitted with read(), in the file engine and in the
\* backend; results in another order occur with two reader threads only.
C20_OneReaderKeepsSubmissionOrder ==
    /\ (engine = "io" /\ mode = "r" /\ IO_simultaneous_reads = 1) =>
          \A i \in Results(ioReceived) :
              i <= Len(ioSubmitted) /\ ioReceived[i][1] = ioSubmitted[i][1]
    /\ (engine = "s3" /\ cfg.reads = 1) =>
          /\ \A i, j \in DOMAIN s3Got : i < j => s3Got[i][1][4] < s3Got[j][1][4]
          /\ \A i, j \in DOMAIN s3ReadDataQueue :
                i < j => s3ReadDataQueue[i][1][4] < s3ReadDataQueue[j][1][4]

\* two reader threads: the result of the second read() is delivered first
C20_Witness ==
    /\ engine = "s3" /\ cfg.reads = 2
    /\ Len(s3Got) = 2
    /\ s3Got[1][1][4] = 2
    /\ s3Got[2][1][4] = 1

\* C21: for every configuration (simultaneous_reads = r, simultaneous_writes =
\* w), open_w starts exactly w writer threads with a write queue of capacity
\* w + 20 and open_r starts exactly r reader threads with an output queue of
\* capacity r + 20; the writer pool does not depend on r.
C21_PoolSizesFollowConfiguration ==
    /\ (engine = "io" /\ mode = "w" /\ ioPc = "open") =>
          /\ Cardinality({w \in Workers : ioWPc[w] # "off"}) = cfg.writes
          /\ IOWriteQueueCap = cfg.writes + IO_WRITE_QUEUE_LENGTH
    /\ (engine = "io" /\ mode = "r" /\ ioPc = "open") =>
          /\ Cardinality({r \in Workers : ioRPc[r] # "off"}) = cfg.reads
          /\ IOOutqueueCap = cfg.reads + IO_READ_QUEUE_LENGTH

\* the block a job of the file engine was written for holds the data of a job
\* submitted for that block
IOJobInPlace(file, k) ==
    \E j \in DOMAIN ioSubmitted :
        /\ ioSubmitted[j][1] = ioSubmitted[k][1]
        /\ ReadAt(file, ioSubmitted[k][1] * BlockSize, Len(ioSubmitted[j][2]))
              = ioSubmitted[j][2]

\* C22: when close() returns, every write job enqueued before close() was
\* called has been applied, for one writer thread or two, provided no write
\* failed: the write queue is drained, every writer thread has ended on its
\* sentinel, and the file holds the data of every write() at its block / the
\* store holds the data of every save() under its uid.
C22_CloseAppliesEveryEnqueuedJob ==
    /\ [][(engine = "io" /\ mode = "w" /\ ioPc = "close_put" /\ ioPc' = "closed") =>
            /\ ioWriteQueue' = <<>>
            /\ \A w \in IOWriters : ioWPc'[w] = "done"
            /\ \A k \in DOMAIN ioSubmitted : IOJobInPlace(fileData', k)]_vars
    /\ [][(engine = "s3" /\ s3Pc = "close_r" /\ s3Pc' = "closed"
           /\ \A w \in Workers : s3WPc[w] # "dead") =>
            /\ s3WriteQueue' = <<>>
            /\ \A w \in S3Writers : s3WPc'[w] = "done"
            /\ \A u \in 1..s3NextUid : store'[u] = s3Saved[u]]_vars
====
